---------------------------- MODULE Spec2Model ----------------------------
(***************************************************************************)
(* Model of services/github/github.go of go-neb: the webhook router        *)
(* (githubService.OnReceiveWebhook), the subscription table                *)
(* (githubService.Rooms) and the issue expansion (the Expand closure of    *)
(* githubService.Plugin with ownerRepoNumberFromText).                     *)
(*                                                                         *)
(* Strings that the code inspects character by character (the expanded     *)
(* text, the url and the title) are sequences of ASCII code points; room   *)
(* ids and event types are only compared for equality and stay opaque.     *)
(***************************************************************************)
EXTENDS Integers, Sequences, FiniteSets, TLC

(***************************************************************************)
(* Bounds of the model.                                                    *)
(***************************************************************************)
\* Room ids are 1..NumRooms; the table's keys are any subset of them.
NumRooms == 2
\* Longest list of event types a room subscribes to.
MaxNotify == 2
\* The same, for the tables of the concurrent specification.
ConcNotify == 1
\* Longest text of which every string over Alphabet is expanded.
MaxTextLen == 5
\* Longest owner and repository name of the generated references.
MaxNameLen == 2

RoomIDs == 1..NumRooms

\* Event types named by the comment on githubService.Rooms.  Rooms
\* subscribe to lists over NotifyTypes; the decoder may also report a type
\* nobody can have subscribed to.
NotifyTypes == {"push", "issue"}
EventTypes == NotifyTypes \cup {"pull_request"}

\* Status codes a decode error (err.Code) may carry.
ErrCodes == {400, 403}

\* Concurrent webhook requests served by the one service: two, the least
\* number that can interfere with each other.
Invocations == {"w1", "w2"}

VARIABLES
    Rooms,     \* githubService.Rooms: room id -> list of event types
    wpc,       \* per invocation: "off" | "start" | "range" | "done"
    evType,    \* per invocation: the decoded event type ("" before decoding)
    errCode,   \* per invocation: err.Code of the decode error (0: err == nil)
    todo,      \* per invocation: keys the range loop has yet to visit
    sent,      \* per invocation: room id -> number of SendMessageEvent calls
    failed,    \* per invocation: rooms whose SendMessageEvent returned an error
    status     \* per invocation: the sequence of WriteHeader calls

wvars == <<Rooms, wpc, evType, errCode, todo, sent, failed, status>>

VARIABLES
    text,      \* Expand's matchingText
    intSize,   \* width of Go's int in this build: 32 or 64
    xpc,       \* Expand: "off" | "start" | "get" | "done"
    ref,       \* what ownerRepoNumberFromText returned
    calls,     \* the cli.Issues.Get calls made, as (owner, repo, num)
    got,       \* what cli.Issues.Get returned
    ret        \* Expand's return value

xvars == <<text, intSize, xpc, ref, calls, got, ret>>

VARIABLES
    rpc,       \* RoomIDs: "off" | "start" | "range" | "done"
    rtodo,     \* RoomIDs: keys the range loop has yet to visit
    keys       \* RoomIDs: the slice keys

rvars == <<rpc, rtodo, keys>>

vars == <<wvars, xvars, rvars>>

(***************************************************************************)
(* The subscription table.                                                 *)
(***************************************************************************)
\* All lists of length at most n over the set S.
SeqsUpTo(S, n) == UNION {[1..k -> S] : k \in 0..n}

\* Every table over RoomIDs: a room is absent, or present with a list of
\* event types (possibly empty, possibly with repeated types).
TablesUpTo(n) == UNION {[K -> SeqsUpTo(NotifyTypes, n)] : K \in SUBSET RoomIDs}

Tables == TablesUpTo(MaxNotify)

ConcTables == TablesUpTo(ConcNotify)

(***************************************************************************)
(* githubService.RoomIDs.                                                  *)
(***************************************************************************)
\* var keys []string, and the range over s.Rooms begins.
RoomIDsBegin ==
    /\ rpc = "start"
    /\ keys' = <<>>
    /\ rtodo' = DOMAIN Rooms
    /\ rpc' = "range"
    /\ UNCHANGED <<wvars, xvars>>

\* Variant: a room with no subscribed event types is left out.
RoomIDsAppend_SkipEmpty(k) ==
    /\ rpc = "range"
    /\ k \in rtodo
    /\ keys' = IF Rooms[k] = <<>> THEN keys ELSE Append(keys, k)
    /\ rtodo' = rtodo \ {k}
    /\ UNCHANGED <<wvars, xvars, rpc>>

\* One iteration of the range: any key not yet visited is appended.
RoomIDsAppend(k) ==
    /\ rpc = "range"
    /\ k \in rtodo
    /\ keys' = Append(keys, k)
    /\ rtodo' = rtodo \ {k}
    /\ UNCHANGED <<wvars, xvars, rpc>>

\* The range is exhausted: return keys.
RoomIDsReturn ==
    /\ rpc = "range"
    /\ rtodo = {}
    /\ rpc' = "done"
    /\ UNCHANGED <<wvars, xvars, rtodo, keys>>

(***************************************************************************)
(* OnReceiveWebhook.                                                       *)
(***************************************************************************)
\* What webhook.OnReceiveRequest may return: an error with a status code,
\* or the event's type (repo and msg are passed through untouched).
DecodeResults ==
    {[err |-> TRUE, code |-> c, evType |-> ""] : c \in ErrCodes}
        \cup {[err |-> FALSE, code |-> 0, evType |-> t] : t \in EventTypes}

\* The inner loop over notif: scan from index k, stop at the first equal type.
RECURSIVE NotifyRoomFrom(_, _, _)
NotifyRoomFrom(notif, t, k) ==
    IF k > Len(notif) THEN FALSE
    ELSE IF t = notif[k] THEN TRUE
    ELSE NotifyRoomFrom(notif, t, k + 1)

\* Variant: only the first subscribed type is compared (no loop over notif).
NotifyRoom_FirstOnly(notif, t) == Len(notif) > 0 /\ t = notif[1]

NotifyRoom(notif, t) == NotifyRoomFrom(notif, t, 1)

\* Variant: the send sits inside the inner loop, without the break: one
\* call for every occurrence of the type in notif.
SendCount_PerMatch(notif, t) ==
    Cardinality({k \in DOMAIN notif : notif[k] = t})

\* Number of SendMessageEvent calls one visit of a room makes.
SendCount(notif, t) == IF NotifyRoom(notif, t) THEN 1 ELSE 0

\* Variant: the error branch lacks its return, so the handler goes on to
\* the range loop (with the zero event type) and to WriteHeader(200).
Decode_NoReturn(i, res) ==
    /\ wpc[i] = "start"
    /\ IF res.err
       THEN /\ errCode' = [errCode EXCEPT ![i] = res.code]
            /\ status' = [status EXCEPT ![i] = Append(@, res.code)]
            /\ UNCHANGED evType
       ELSE /\ evType' = [evType EXCEPT ![i] = res.evType]
            /\ UNCHANGED <<errCode, status>>
    /\ todo' = [todo EXCEPT ![i] = DOMAIN Rooms]
    /\ wpc' = [wpc EXCEPT ![i] = "range"]
    /\ UNCHANGED <<rvars, xvars, Rooms, sent, failed>>

\* webhook.OnReceiveRequest returns; on an error the handler writes the
\* error's code and returns, otherwise the range over s.Rooms begins.
Decode(i, res) ==
    /\ wpc[i] = "start"
    /\ IF res.err
       THEN /\ errCode' = [errCode EXCEPT ![i] = res.code]
            /\ status' = [status EXCEPT ![i] = Append(@, res.code)]
            /\ wpc' = [wpc EXCEPT ![i] = "done"]
            /\ UNCHANGED <<evType, todo>>
       ELSE /\ evType' = [evType EXCEPT ![i] = res.evType]
            /\ todo' = [todo EXCEPT ![i] = DOMAIN Rooms]
            /\ wpc' = [wpc EXCEPT ![i] = "range"]
            /\ UNCHANGED <<errCode, status>>
    /\ UNCHANGED <<rvars, xvars, Rooms, sent, failed>>

\* Variant: a send error ends the handler (WriteHeader(500) and return).
RangeStep_AbortOnError(i, roomID, e) ==
    /\ wpc[i] = "range"
    /\ roomID \in todo[i]
    /\ LET n == SendCount(Rooms[roomID], evType[i])
       IN  /\ (n = 0) => (e = FALSE)
           /\ sent' = [sent EXCEPT ![i][roomID] = @ + n]
           /\ failed' = [failed EXCEPT ![i] = IF e THEN @ \cup {roomID} ELSE @]
    /\ todo' = [todo EXCEPT ![i] = @ \ {roomID}]
    /\ IF e
       THEN /\ status' = [status EXCEPT ![i] = Append(@, 500)]
            /\ wpc' = [wpc EXCEPT ![i] = "done"]
       ELSE UNCHANGED <<wpc, status>>
    /\ UNCHANGED <<rvars, xvars, Rooms, evType, errCode>>

\* Variant: a notified room is dropped from the shared table (a one-shot
\* subscription), so the pass writes state other requests read.
RangeStep_OneShot(i, roomID, e) ==
    /\ wpc[i] = "range"
    /\ roomID \in todo[i]
    /\ roomID \in DOMAIN Rooms
    /\ LET n == SendCount(Rooms[roomID], evType[i])
       IN  /\ (n = 0) => (e = FALSE)
           /\ sent' = [sent EXCEPT ![i][roomID] = @ + n]
           /\ failed' = [failed EXCEPT ![i] = IF e THEN @ \cup {roomID} ELSE @]
           /\ Rooms' = IF n = 0 THEN Rooms
                       ELSE [r \in DOMAIN Rooms \ {roomID} |-> Rooms[r]]
    /\ todo' = [todo EXCEPT ![i] = @ \ {roomID}]
    /\ UNCHANGED <<rvars, xvars, wpc, evType, errCode, status>>

\* One iteration of the range over s.Rooms: any key not yet visited (Go
\* fixes no order), the scan of its list, and the send with its outcome e.
RangeStep(i, roomID, e) ==
    /\ wpc[i] = "range"
    /\ roomID \in todo[i]
    /\ LET n == SendCount(Rooms[roomID], evType[i])
       IN  /\ (n = 0) => (e = FALSE)
           /\ sent' = [sent EXCEPT ![i][roomID] = @ + n]
           /\ failed' = [failed EXCEPT ![i] = IF e THEN @ \cup {roomID} ELSE @]
    /\ todo' = [todo EXCEPT ![i] = @ \ {roomID}]
    /\ UNCHANGED <<rvars, xvars, Rooms, wpc, evType, errCode, status>>

\* Variant: the handler answers 500 when some delivery failed.
WriteHeader200_FailIfAnyFailed(i) ==
    /\ wpc[i] = "range"
    /\ todo[i] = {}
    /\ status' = [status EXCEPT
                     ![i] = Append(@, IF failed[i] = {} THEN 200 ELSE 500)]
    /\ wpc' = [wpc EXCEPT ![i] = "done"]
    /\ UNCHANGED <<rvars, xvars, Rooms, evType, errCode, todo, sent, failed>>

\* The range is exhausted: w.WriteHeader(200) and return.
WriteHeader200(i) ==
    /\ wpc[i] = "range"
    /\ todo[i] = {}
    /\ status' = [status EXCEPT ![i] = Append(@, 200)]
    /\ wpc' = [wpc EXCEPT ![i] = "done"]
    /\ UNCHANGED <<rvars, xvars, Rooms, evType, errCode, todo, sent, failed>>

(***************************************************************************)
(* ownerRepoIssueRegex and ownerRepoNumberFromText.                        *)
(***************************************************************************)
\* The character class [A-z0-9-_]: the range 'A'..'z' (code points 65 to
\* 122, which holds the letters and also [ \ ] ^ _ `), the digits, '-', '_'.
InClass(c) == c \in 65..122 \/ c \in 48..57 \/ c = 45 \/ c = 95

\* The character class [0-9].
IsDigit(c) == c \in 48..57

\* The character at position p, or 0 past either end of the text.
At(s, p) == IF p \in 1..Len(s) THEN s[p] ELSE 0

\* Length of the longest run of class characters starting at position p.
RECURSIVE ClassRun(_, _)
ClassRun(s, p) == IF InClass(At(s, p)) THEN 1 + ClassRun(s, p + 1) ELSE 0

\* Length of the longest run of digits starting at position p.
RECURSIVE DigitRun(_, _)
DigitRun(s, p) == IF IsDigit(At(s, p)) THEN 1 + DigitRun(s, p + 1) ELSE 0

\* The captured groups of the match that starts at position i with a
\* class characters, '/', b class characters, '#' and d digits.
Groups(s, i, a, b, d) ==
    <<SubSeq(s, i, i + a + b + d + 1),
      SubSeq(s, i, i + a - 1),
      SubSeq(s, i + a + 1, i + a + b),
      SubSeq(s, i + a + b + 2, i + a + b + d + 1)>>

\* The second group and the rest, the first group being the a characters
\* from position i: the group is tried with b characters, then (backing
\* off) with fewer; the digits are taken greedily and need one at least.
RECURSIVE MatchRepo(_, _, _, _)
MatchRepo(s, i, a, b) ==
    IF b = 0 THEN <<>>
    ELSE IF At(s, i + a + 1 + b) = 35 /\ DigitRun(s, i + a + b + 2) >= 1
    THEN Groups(s, i, a, b, DigitRun(s, i + a + b + 2))
    ELSE MatchRepo(s, i, a, b - 1)

\* The match that starts at position i: the first group is tried with a
\* characters, then with fewer; <<>> when there is no match from i.
RECURSIVE MatchOwner(_, _, _)
MatchOwner(s, i, a) ==
    IF a = 0 THEN <<>>
    ELSE IF At(s, i + a) = 47
            /\ MatchRepo(s, i, a, ClassRun(s, i + a + 1)) # <<>>
    THEN MatchRepo(s, i, a, ClassRun(s, i + a + 1))
    ELSE MatchOwner(s, i, a - 1)

\* Variant: the search runs from the end of the text, so the match that
\* starts last is reported.
RECURSIVE FindFrom_Last(_, _)
FindFrom_Last(s, i) ==
    IF Len(s) + 1 - i < 1 THEN <<>>
    ELSE IF MatchOwner(s, Len(s) + 1 - i, ClassRun(s, Len(s) + 1 - i)) # <<>>
    THEN MatchOwner(s, Len(s) + 1 - i, ClassRun(s, Len(s) + 1 - i))
    ELSE FindFrom_Last(s, i + 1)

\* The leftmost match that starts at position i or later.
RECURSIVE FindFrom(_, _)
FindFrom(s, i) ==
    IF i > Len(s) THEN <<>>
    ELSE IF MatchOwner(s, i, ClassRun(s, i)) # <<>>
    THEN MatchOwner(s, i, ClassRun(s, i))
    ELSE FindFrom(s, i + 1)

\* ownerRepoIssueRegex.FindStringSubmatch: the leftmost match, as
\* <<full match, owner, repo, number>>, or the empty list when none.
FindStringSubmatch(s) == FindFrom(s, 1)

\* Widths Go's int may have, and the largest int of each width in decimal.
IntSizes == {32, 64}

MaxIntDigits(bits) ==
    IF bits = 32 THEN <<50, 49, 52, 55, 52, 56, 51, 54, 52, 55>>
    ELSE 
         <<57, 50, 50, 51, 51, 55, 50, 48, 51, 54, 56, 53, 52, 55, 55, 53, 56, 48, 55>>

\* A Go int is held as its decimal numeral without leading zeros (the
\* model checker's own integers are narrower than 64 bits).
RECURSIVE StripZeros(_)
StripZeros(d) ==
    IF Len(d) > 1 /\ d[1] = 48 THEN StripZeros(Tail(d)) ELSE d

\* a > b, for numerals without leading zeros.
NumeralGreater(a, b) ==
    \/ Len(a) > Len(b)
    \/ /\ Len(a) = Len(b)
       /\ \E k \in 1..Len(a) :
              /\ a[k] > b[k]
              /\ \A j \in 1..(k - 1) : a[j] = b[j]

\* Variant: the value wraps to the int's low digits instead of failing.
Atoi_Wrap(d, bits) ==
    IF d = <<>> \/ \E k \in 1..Len(d) : ~IsDigit(d[k])
    THEN [err |-> TRUE, num |-> <<48>>]
    ELSE LET n == StripZeros(d)
             w == Len(MaxIntDigits(bits)) - 1
         IN  IF NumeralGreater(n, MaxIntDigits(bits))
             THEN [err |-> FALSE,
                   num |-> StripZeros(SubSeq(n, Len(n) - w + 1, Len(n)))]
             ELSE [err |-> FALSE, num |-> n]

\* strconv.Atoi on an unsigned digit string: a syntax error when it is
\* empty or holds a non-digit, a range error when the value exceeds the
\* largest int, otherwise the value.
Atoi(d, bits) ==
    IF d = <<>> \/ \E k \in 1..Len(d) : ~IsDigit(d[k])
    THEN [err |-> TRUE, num |-> <<48>>]
    ELSE LET n == StripZeros(d)
         IN  IF NumeralGreater(n, MaxIntDigits(bits))
             THEN [err |-> TRUE, num |-> <<48>>]
             ELSE [err |-> FALSE, num |-> n]

\* The error return: "", "", 0, err.
ErrRef == [err |-> TRUE, owner |-> <<>>, repo |-> <<>>, num |-> <<48>>]

\* Variant: the captured groups are returned in the wrong order.
ownerRepoNumberFromText_Swapped(ownerRepoNumberText, bits) ==
    LET groups == FindStringSubmatch(ownerRepoNumberText)
    IN  IF Len(groups) # 4 THEN ErrRef
        ELSE LET n == Atoi(groups[4], bits)
             IN  IF n.err THEN ErrRef
                 ELSE [err |-> FALSE, owner |-> groups[3],
                       repo |-> groups[2], num |-> n.num]

ownerRepoNumberFromText(ownerRepoNumberText, bits) ==
    LET groups == FindStringSubmatch(ownerRepoNumberText)
    IN  IF Len(groups) # 4 THEN ErrRef
        ELSE LET n == Atoi(groups[4], bits)
             IN  IF n.err THEN ErrRef
                 ELSE [err |-> FALSE, owner |-> groups[2],
                       repo |-> groups[3], num |-> n.num]

(***************************************************************************)
(* Expand.                                                                 *)
(***************************************************************************)
\* A *string: nil, or a pointer to the string s.
NilPtr == [nil |-> TRUE, s |-> <<>>]
Ptr(s) == [nil |-> FALSE, s |-> s]

\* Urls and titles the issue tracker may answer with.
Urls == {<<104, 116, 116, 112, 58, 47, 47, 120, 47, 49>>}
Titles == {<<70, 105, 120, 32, 98, 117, 103>>, <<97, 32, 58, 32, 98>>, <<>>}

\* What cli.Issues.Get may return: an error, or an issue whose HTMLURL and
\* Title are each set or nil.
NoGet == [err |-> FALSE, HTMLURL |-> NilPtr, Title |-> NilPtr]
GetResults ==
    {[err |-> TRUE, HTMLURL |-> NilPtr, Title |-> NilPtr]}
        \cup {[err |-> FALSE, HTMLURL |-> u, Title |-> t] :
                 u \in {NilPtr} \cup {Ptr(x) : x \in Urls},
                 t \in {NilPtr} \cup {Ptr(x) : x \in Titles}}

\* Expand's outcomes: not returned yet, nil, a *matrix.TextMessage, or a
\* nil-pointer dereference (a run-time panic).
NoRet == [kind |-> "none", msgtype |-> "", body |-> <<>>]
NilRet == [kind |-> "nil", msgtype |-> "", body |-> <<>>]
PanicRet == [kind |-> "panic", msgtype |-> "", body |-> <<>>]
TextMessage(msgtype, body) ==
    [kind |-> "msg", msgtype |-> msgtype, body |-> body]

\* Variant: the format string lacks the space before the colon.
Sprintf_NoSpace(url, title) == url \o <<58, 32>> \o title

\* fmt.Sprintf("%s : %s", url, title).
Sprintf(url, title) == url \o <<32, 58, 32>> \o title

\* Variant: the error branch lacks its return, so the lookup is made with
\* the zero values.
ExpandExtract_NoReturn ==
    /\ xpc = "start"
    /\ ref' = ownerRepoNumberFromText(text, intSize)
    /\ xpc' = "get"
    /\ UNCHANGED <<rvars, wvars, text, intSize, calls, got, ret>>

\* The first half of Expand: extract owner, repo and number from the text;
\* on an error return nil.
ExpandExtract ==
    /\ xpc = "start"
    /\ LET r == ownerRepoNumberFromText(text, intSize)
       IN  /\ ref' = r
           /\ IF r.err
              THEN ret' = NilRet /\ xpc' = "done"
              ELSE ret' = ret /\ xpc' = "get"
    /\ UNCHANGED <<rvars, wvars, text, intSize, calls, got>>

\* Variant: the error of the lookup is not checked before the issue is
\* formatted.
IssuesGet_IgnoreErr(res) ==
    /\ xpc = "get"
    /\ calls' = Append(calls, <<ref.owner, ref.repo, ref.num>>)
    /\ got' = res
    /\ ret' = IF res.HTMLURL.nil \/ res.Title.nil THEN PanicRet
              ELSE TextMessage("m.notice", Sprintf(res.HTMLURL.s, res.Title.s))
    /\ xpc' = "done"
    /\ UNCHANGED <<rvars, wvars, text, intSize, ref>>

\* The second half of Expand: cli.Issues.Get returns res; on an error
\* return nil, otherwise the notice built from *i.HTMLURL and *i.Title.
IssuesGet(res) ==
    /\ xpc = "get"
    /\ calls' = Append(calls, <<ref.owner, ref.repo, ref.num>>)
    /\ got' = res
    /\ ret' = IF res.err THEN NilRet
              ELSE IF res.HTMLURL.nil \/ res.Title.nil THEN PanicRet
              ELSE TextMessage("m.notice", Sprintf(res.HTMLURL.s, res.Title.s))
    /\ xpc' = "done"
    /\ UNCHANGED <<rvars, wvars, text, intSize, ref>>

(***************************************************************************)
(* The texts Expand is called with.                                        *)
(***************************************************************************)
\* 'a', '1', '/', '#', ' ' and '[': every string over them up to MaxTextLen
\* is a text.
Alphabet == {97, 49, 47, 35, 32, 91}
ShortTexts == SeqsUpTo(Alphabet, MaxTextLen)

\* Names over 'a', '1', '-' and '_'.
Names == SeqsUpTo({97, 49, 45, 95}, MaxNameLen) \ {<<>>}

\* "0", "42" and "007".
SmallNumerals == {<<48>>, <<52, 50>>, <<48, 48, 55>>}

\* The largest int of either width, each with its successor, and a run of
\* twenty digits.
BigNumerals ==
    {<<50, 49, 52, 55, 52, 56, 51, 54, 52, 55>>,
     <<50, 49, 52, 55, 52, 56, 51, 54, 52, 56>>,
     <<57, 50, 50, 51, 51, 55, 50, 48, 51, 54, 56, 53, 52, 55, 55, 53, 56, 48, 55>>,
     <<57, 50, 50, 51, 51, 55, 50, 48, 51, 54, 56, 53, 52, 55, 55, 53, 56, 48, 56>>,
     <<57, 57, 57, 57, 57, 57, 57, 57, 57, 57, 57, 57, 57, 57, 57, 57, 57, 57, 57, 57>>}

\* The text owner/repo#numeral.
RefText(owner, repo, numeral) == owner \o <<47>> \o repo \o <<35>> \o numeral

RefTexts ==
    {RefText(o, r, d) : o \in Names, r \in Names, d \in SmallNumerals}
        \cup {RefText(o, r, d) : o \in {<<97>>, <<98, 45, 49>>}, r \in {<<97>>, <<98, 45, 49>>}, d \in BigNumerals}

\* References inside running text, and two references in one text.
SmallRefs ==
    {RefText(o, r, d) : o \in {<<97>>, <<98, 45, 49>>}, r \in {<<97>>, <<98, 45, 49>>}, d \in {<<49>>, <<50, 51>>}}
EmbeddedTexts ==
    {pre \o r \o post :
        pre \in {<<115, 101, 101, 32>>, <<91>>, <<47>>},
        r \in SmallRefs,
        post \in {<<32, 102, 111, 114, 32, 100, 101, 116, 97, 105, 108, 115>>, <<47, 98, 35, 50>>, <<97>>}}
TwoRefTexts ==
    {r1 \o sep \o r2 :
        r1 \in SmallRefs, sep \in {<<>>, <<32>>, <<44, 32>>}, r2 \in SmallRefs}

\* "octocat/Hello-World#123", "not-a-match" and
\* "see octocat/Hello-World#1 for details".
ExampleTexts ==
    {<<111, 99, 116, 111, 99, 97, 116, 47, 72, 101, 108, 108, 111, 45, 87, 111, 114, 108, 100, 35, 49, 50, 51>>,
     <<110, 111, 116, 45, 97, 45, 109, 97, 116, 99, 104>>,
     <<115, 101, 101, 32, 111, 99, 116, 111, 99, 97, 116, 47, 72, 101, 108, 108, 111, 45, 87, 111, 114, 108, 100, 35, 49, 32, 102, 111, 114, 32, 100, 101, 116, 97, 105, 108, 115>>}

\* A reference with a large number, followed by the reference a/a#1.
OverflowTexts ==
    {RefText(<<97>>, <<97>>, d) \o <<32>> \o RefText(<<97>>, <<97>>, <<49>>) :
        d \in BigNumerals}

Texts ==
    ShortTexts \cup RefTexts \cup EmbeddedTexts \cup TwoRefTexts
        \cup ExampleTexts \cup OverflowTexts

(***************************************************************************)
(* The specifications: a table and the webhook requests served on it, or   *)
(* one call of Expand.                                                     *)
(***************************************************************************)
\* The state of the requests in `active` before their handler runs.
InitWebhook(active) ==
    /\ wpc = [i \in Invocations |-> IF i \in active THEN "start" ELSE "off"]
    /\ evType = [i \in Invocations |-> ""]
    /\ errCode = [i \in Invocations |-> 0]
    /\ todo = [i \in Invocations |-> {}]
    /\ sent = [i \in Invocations |-> [r \in RoomIDs |-> 0]]
    /\ failed = [i \in Invocations |-> {}]
    /\ status = [i \in Invocations |-> <<>>]

\* The zero values of Expand's locals.
NoRef == [err |-> FALSE, owner |-> <<>>, repo |-> <<>>, num |-> <<48>>]

\* A call of Expand in program counter pc on text t, in a build of width w.
InitExpansion(pc, t, w) ==
    /\ text = t
    /\ intSize = w
    /\ xpc = pc
    /\ ref = NoRef
    /\ calls = <<>>
    /\ got = NoGet
    /\ ret = NoRet

\* A call of RoomIDs in program counter pc.
InitRoomIDs(pc) ==
    /\ rpc = pc
    /\ rtodo = {}
    /\ keys = <<>>

\* One request on any table.
Init ==
    /\ Rooms \in Tables
    /\ InitWebhook({"w1"})
    /\ InitExpansion("off", <<>>, 64)
    /\ InitRoomIDs("off")

\* Concurrent requests on any table of ConcTables.
InitConc ==
    /\ Rooms \in ConcTables
    /\ InitWebhook(Invocations)
    /\ InitExpansion("off", <<>>, 64)
    /\ InitRoomIDs("off")

\* One expansion of any text, in a build of either width.
InitExpand ==
    /\ Rooms = <<>>
    /\ InitWebhook({})
    /\ \E t \in Texts, w \in IntSizes : InitExpansion("start", t, w)
    /\ InitRoomIDs("off")

\* One call of RoomIDs on any table.
InitKeys ==
    /\ Rooms \in Tables
    /\ InitWebhook({})
    /\ InitExpansion("off", <<>>, 64)
    /\ InitRoomIDs("start")

Next ==
    \E i \in Invocations :
        \/ \E res \in DecodeResults : Decode(i, res)
        \/ \E roomID \in RoomIDs, e \in BOOLEAN : RangeStep(i, roomID, e)
        \/ WriteHeader200(i)

NextExpand ==
    \/ ExpandExtract
    \/ \E res \in GetResults : IssuesGet(res)

Spec == Init /\ [][Next]_vars

SpecConc == InitConc /\ [][Next]_vars

\* One request whose handler keeps running: the decoder and every
\* SendMessageEvent call return, so a step that can be taken is taken.
SpecFair == Init /\ [][Next]_vars /\ WF_vars(Next)

SpecExpand == InitExpand /\ [][NextExpand]_vars

NextKeys ==
    \/ RoomIDsBegin
    \/ \E k \in RoomIDs : RoomIDsAppend(k)
    \/ RoomIDsReturn

SpecKeys == InitKeys /\ [][NextKeys]_vars

(***************************************************************************)
(* Properties of the webhook router.                                       *)
(***************************************************************************)
\* The rooms of the table whose subscribed types, as a set, contain t.
Subscribers(t) ==
    {r \in DOMAIN Rooms : \E k \in DOMAIN Rooms[r] : Rooms[r][k] = t}

\* The rooms invocation i has called SendMessageEvent for.
Attempted(i) == {r \in RoomIDs : sent[i][r] > 0}

\* Invocation i decoded its event and finished its pass.
PassDone(i) == wpc[i] = "done" /\ evType[i] \in EventTypes

\* C1: a routing pass attempts a delivery to room R if and only if R is a
\* key of the table and the event's type is among R's subscribed types: at
\* no point of the pass has any other room been attempted, and at its end
\* every such room has been.
C1_RoutingPartition ==
    \A i \in Invocations :
        /\ Attempted(i) \subseteq Subscribers(evType[i])
        /\ PassDone(i) => Attempted(i) = Subscribers(evType[i])

\* C1 witness: a finished pass that delivered to one room and skipped
\* another room of the table, which subscribes to other types only.
C1_Witness ==
    \E i \in Invocations, r1, r2 \in DOMAIN Rooms :
        /\ PassDone(i)
        /\ sent[i][r1] = 1
        /\ Len(Rooms[r2]) > 0 /\ sent[i][r2] = 0

\* C2: once a delivery of the pass has failed, every subscribed room has
\* still either been attempted or is still to be visited by the running
\* loop; so at the end of the pass all of them have been attempted.
C2_FailureIsolated ==
    \A i \in Invocations :
        failed[i] # {} =>
            \A r \in Subscribers(evType[i]) :
                \/ sent[i][r] >= 1
                \/ wpc[i] = "range" /\ r \in todo[i]

\* C2 witness: a finished pass in which one delivery failed and another
\* subscribed room got its delivery without failure.
C2_Witness ==
    \E i \in Invocations, r1, r2 \in RoomIDs :
        /\ PassDone(i)
        /\ r1 \in failed[i]
        /\ r2 \notin failed[i] /\ sent[i][r2] = 1

\* C3: after a successful decode the only status ever written is 200,
\* whatever deliveries failed, and it is written only once every
\* subscribed room has had its delivery attempt.
C3_Status200AfterFanOut ==
    \A i \in Invocations :
        evType[i] \in EventTypes =>
            /\ wpc[i] = "range" => status[i] = <<>>
            /\ wpc[i] = "done" => status[i] = <<200>>
            /\ status[i] # <<>> => Subscribers(evType[i]) \subseteq Attempted(i)

\* C3 witness: 200 was written although every delivery of the pass failed.
C3_Witness ==
    \E i \in Invocations :
        /\ status[i] = <<200>>
        /\ failed[i] # {}
        /\ failed[i] = Subscribers(evType[i])

\* C4: when decoding fails with code C, the handler writes exactly C, makes
\* no delivery attempt and never writes 200.
C4_DecodeErrorVerbatim ==
    \A i \in Invocations :
        errCode[i] # 0 =>
            /\ status[i] = <<errCode[i]>>
            /\ wpc[i] = "done"
            /\ Attempted(i) = {}

\* C4 witness: a decode failure with code 403 on a table that has rooms.
C4_Witness ==
    \E i \in Invocations :
        /\ errCode[i] = 403
        /\ status[i] = <<403>>
        /\ DOMAIN Rooms # {}

\* C5: a pass makes at most one delivery call per room, and at its end the
\* number of calls for a room of the table depends only on the set of its
\* subscribed types: 1 when the event's type is in it, 0 otherwise.
C5_OneCallPerRoom ==
    \A i \in Invocations, r \in RoomIDs :
        /\ sent[i][r] <= 1
        /\ (PassDone(i) /\ r \in DOMAIN Rooms) =>
               sent[i][r] =
                   IF evType[i] \in {Rooms[r][k] : k \in DOMAIN Rooms[r]}
                   THEN 1 ELSE 0

\* C5 witness: a room that lists the event's type twice got one call.
C5_Witness ==
    \E i \in Invocations, r \in DOMAIN Rooms :
        /\ PassDone(i)
        /\ Len(Rooms[r]) = 2
        /\ Rooms[r][1] = evType[i] /\ Rooms[r][2] = evType[i]
        /\ sent[i][r] = 1

\* C6: no step of any request changes the subscription table, and under
\* any interleaving each request that decoded its event ends with exactly
\* the deliveries it makes when it runs alone on the table.
C6_TableReadOnly ==
    /\ [][Rooms' = Rooms]_vars
    /\ [](\A i \in Invocations :
             /\ Attempted(i) \subseteq Subscribers(evType[i])
             /\ PassDone(i) => Attempted(i) = Subscribers(evType[i]))

\* C6 witness: two requests in the middle of their passes at once, each
\* with a delivery made and a room still to visit, one with a failure.
C6_Witness ==
    /\ \A i \in Invocations :
           /\ wpc[i] = "range"
           /\ Attempted(i) # {}
           /\ todo[i] # {}
    /\ \E i \in Invocations : failed[i] # {}

\* C14: every webhook invocation ends, and it writes the response status
\* exactly once: nothing before it ends, and by then either the decoder's
\* error code with no delivery attempted, or 200 after the range over the
\* rooms; never two statuses and never none.
C14_TerminatesOneStatus ==
    /\ \A i \in Invocations : (wpc[i] = "start") ~> (wpc[i] = "done")
    /\ [](\A i \in Invocations :
             /\ wpc[i] # "done" => status[i] = <<>>
             /\ wpc[i] = "done" =>
                    \/ errCode[i] # 0 /\ status[i] = <<errCode[i]>>
                                      /\ Attempted(i) = {}
                    \/ errCode[i] = 0 /\ status[i] = <<200>>
                                      /\ todo[i] = {})

\* C14 witness: an invocation that visited two rooms, delivered to one of
\* them, and ended with the single status 200.
C14_Witness ==
    \E i \in Invocations :
        /\ wpc[i] = "done"
        /\ Len(status[i]) = 1 /\ status[i][1] = 200
        /\ Cardinality(DOMAIN Rooms) = 2
        /\ Cardinality(Attempted(i)) = 1

(***************************************************************************)
(* Properties of the expansion.                                            *)
(***************************************************************************)
\* Expand has returned after one lookup, whose answer is in got.
LookedUp == xpc = "done" /\ Len(calls) = 1

\* C7: when the lookup fails, Expand returns nil: no message, no panic,
\* no formatted string.
C7_LookupErrorNoMessage == (LookedUp /\ got.err) => ret = NilRet

\* C7 witness: a reference was extracted, the lookup failed, nil came back.
C7_Witness ==
    /\ LookedUp /\ got.err
    /\ text = <<111, 99, 116, 111, 99, 97, 116, 47, 72, 101, 108, 108, 111, 45, 87, 111, 114, 108, 100, 35, 49, 50, 51>>
    /\ ret.kind = "nil"

\* C8: when the lookup succeeds with a url and a title, Expand returns one
\* m.notice message whose body is the url, then " : ", then the title, and
\* nothing else.
C8_NoticeFormat ==
    (LookedUp /\ ~got.err /\ ~got.HTMLURL.nil /\ ~got.Title.nil) =>
        LET u == got.HTMLURL.s
            t == got.Title.s
            b == ret.body
        IN  /\ ret.kind = "msg"
            /\ ret.msgtype = "m.notice"
            /\ Len(b) = Len(u) + 3 + Len(t)
            /\ \A k \in 1..Len(u) : b[k] = u[k]
            /\ b[Len(u) + 1] = 32 /\ b[Len(u) + 2] = 58 /\ b[Len(u) + 3] = 32
            /\ \A k \in 1..Len(t) : b[Len(u) + 3 + k] = t[k]

\* C8 witness: "see octocat/Hello-World#1 for details" with the answer
\* {"http://x/1", "Fix bug"} gives the body "http://x/1 : Fix bug".
C8_Witness ==
    /\ LookedUp
    /\ text = <<115, 101, 101, 32, 111, 99, 116, 111, 99, 97, 116, 47, 72, 101, 108, 108, 111, 45, 87, 111, 114, 108, 100, 35, 49, 32, 102, 111, 114, 32, 100, 101, 116, 97, 105, 108, 115>>
    /\ got.HTMLURL = Ptr(<<104, 116, 116, 112, 58, 47, 47, 120, 47, 49>>)
    /\ got.Title = Ptr(<<70, 105, 120, 32, 98, 117, 103>>)
    /\ ret = TextMessage("m.notice", 
            <<104, 116, 116, 112, 58, 47, 47, 120, 47, 49, 32, 58, 32, 70, 105, 120, 32, 98, 117, 103>>)

\* The first position at or after `from` where s holds the character c, or
\* 0 when there is none.
RECURSIVE NextPos(_, _, _)
NextPos(s, c, from) ==
    IF from > Len(s) THEN 0
    ELSE IF s[from] = c THEN from
    ELSE NextPos(s, c, from + 1)

\* The numeral n is the digit string d without its leading zeros.
SameNumber(d, n) ==
    /\ Len(n) >= 1
    /\ Len(n) = 1 \/ n[1] # 48
    /\ Len(n) <= Len(d)
    /\ \A k \in 1..(Len(d) - Len(n)) : d[k] = 48
    /\ SubSeq(d, Len(d) - Len(n) + 1, Len(d)) = n

\* An occurrence of the pattern starts at position i of s: pattern
\* characters up to a '/', pattern characters up to a '#', then a digit.
RefStartsAt(s, i) ==
    LET p == NextPos(s, 47, i)
        q == NextPos(s, 35, p + 1)
    IN  /\ p > i
        /\ q > p + 1
        /\ \A k \in i..(p - 1) : InClass(s[k])
        /\ \A k \in (p + 1)..(q - 1) : InClass(s[k])
        /\ IsDigit(At(s, q + 1))

\* The call <<owner, repo, num>> is for the occurrence that starts at i.
CallIsForRefAt(call, s, i) ==
    LET p == NextPos(s, 47, i)
        q == NextPos(s, 35, p + 1)
    IN  /\ call[1] = SubSeq(s, i, p - 1)
        /\ call[2] = SubSeq(s, p + 1, q - 1)
        /\ \E e \in (q + 1)..Len(s) :
               /\ \A k \in (q + 1)..e : IsDigit(s[k])
               /\ ~IsDigit(At(s, e + 1))
               /\ SameNumber(SubSeq(s, q + 1, e), call[3])

\* C9: an expansion makes at most one lookup call, and the call is for the
\* leftmost occurrence of the pattern in the text; further occurrences
\* cause no call.
C9_OneLookupFirstMatch ==
    /\ Len(calls) <= 1
    /\ Len(calls) = 1 =>
           LET S == {i \in 1..Len(text) : RefStartsAt(text, i)}
           IN  /\ S # {}
               /\ CallIsForRefAt(calls[1], text,
                                 CHOOSE i \in S : \A j \in S : i <= j)

\* C9 witness: "a/a#1, b-1/a#23" was expanded with the one call (a, a, 1).
C9_Witness ==
    /\ xpc = "done"
    /\ text = <<97, 47, 97, 35, 49, 44, 32, 98, 45, 49, 47, 97, 35, 50, 51>>
    /\ calls = <<<<<<97>>, <<97>>, <<49>>>>>>

\* Alphanumerics, hyphen and underscore.
NameChar(c) == c \in 48..57 \/ c \in 65..90 \/ c \in 97..122 \/ c = 45 \/ c = 95

\* a <= b, for numerals without leading zeros.
NumeralLE(a, b) ==
    \/ Len(a) < Len(b)
    \/ /\ Len(a) = Len(b)
       /\ \A k \in 1..Len(a) :
              (\A j \in 1..(k - 1) : a[j] = b[j]) => a[k] <= b[k]

\* The numeral of the digit string d.
NumberOf(d) ==
    CHOOSE n \in {SubSeq(d, z, Len(d)) : z \in 1..Len(d)} : SameNumber(d, n)

\* C10: for a text that is owner/repo#n, with owner and repo non-empty
\* strings of alphanumerics, hyphens and underscores and n a digit string
\* whose number fits the int, ownerRepoNumberFromText yields exactly owner,
\* repo and that number; for a text with no '/' followed by a '#' it yields
\* no reference.
C10_MatchYieldsTriple ==
    xpc # "start" =>
        LET p == NextPos(text, 47, 1)
            q == NextPos(text, 35, 1)
            n == Len(text)
        IN  /\ ( /\ p > 1 /\ q > p + 1 /\ q < n
                 /\ \A k \in 1..(p - 1) : NameChar(text[k])
                 /\ \A k \in (p + 1)..(q - 1) : NameChar(text[k])
                 /\ \A k \in (q + 1)..n : IsDigit(text[k])
                 /\ NumeralLE(NumberOf(SubSeq(text, q + 1, n)),
                              MaxIntDigits(intSize)) )
               => /\ ~ref.err
                  /\ ref.owner = SubSeq(text, 1, p - 1)
                  /\ ref.repo = SubSeq(text, p + 1, q - 1)
                  /\ ref.num = NumberOf(SubSeq(text, q + 1, n))
            /\ (p = 0 \/ NextPos(text, 35, p + 1) = 0) => ref.err

\* C10 witness: "octocat/Hello-World#123" gave octocat, Hello-World, 123.
C10_Witness ==
    /\ xpc # "start"
    /\ text = <<111, 99, 116, 111, 99, 97, 116, 47, 72, 101, 108, 108, 111, 45, 87, 111, 114, 108, 100, 35, 49, 50, 51>>
    /\ ref = [err |-> FALSE, owner |-> <<111, 99, 116, 111, 99, 97, 116>>,
              repo |-> 
              <<72, 101, 108, 108, 111, 45, 87, 111, 114, 108, 100>>, num |-> <<49, 50, 51>>]

\* C11: the owner and the repository of every extracted reference hold
\* only alphanumerics, hyphens and underscores (so never '[', '\', ']', '^'
\* or a backquote), and the number is a numeral of decimal digits.
C11_NamesAlphanumeric ==
    (xpc # "start" /\ ~ref.err) =>
        /\ \A k \in 1..Len(ref.owner) : NameChar(ref.owner[k])
        /\ \A k \in 1..Len(ref.repo) : NameChar(ref.repo[k])
        /\ \A k \in 1..Len(ref.num) : IsDigit(ref.num[k])
        /\ SameNumber(ref.num, ref.num)

\* The digits after the '#' of the leftmost occurrence of the pattern in s
\* (s has an occurrence).
FirstDigitRun(s) ==
    LET S == {i \in 1..Len(s) : RefStartsAt(s, i)}
        i == CHOOSE x \in S : \A y \in S : x <= y
        q == NextPos(s, 35, NextPos(s, 47, i) + 1)
        e == CHOOSE x \in (q + 1)..Len(s) :
                 /\ \A k \in (q + 1)..x : IsDigit(s[k])
                 /\ ~IsDigit(At(s, x + 1))
    IN  SubSeq(s, q + 1, e)

\* The text has a reference whose number is larger than the largest int.
NumberOverflows ==
    /\ \E i \in 1..Len(text) : RefStartsAt(text, i)
    /\ ~NumeralLE(NumberOf(FirstDigitRun(text)), MaxIntDigits(intSize))

\* C12: for a text whose number does not fit the int of the build,
\* ownerRepoNumberFromText gives its error return (no wrapped or cut
\* number), and Expand returns nil without a lookup call.
C12_OverflowNoReference ==
    (xpc # "start" /\ NumberOverflows) =>
        /\ ref = ErrRef
        /\ xpc = "done"
        /\ ret = NilRet
        /\ calls = <<>>

\* C12 witness: "a/a#9223372036854775808" in a 64-bit build came back nil.
C12_Witness ==
    /\ text = 
         <<97, 47, 97, 35, 57, 50, 50, 51, 51, 55, 50, 48, 51, 54, 56, 53, 52, 55, 55, 53, 56, 48, 56>>
    /\ intSize = 64
    /\ xpc = "done"
    /\ ref.err
    /\ ret.kind = "nil"

\* C15: every lookup call carries the owner, repository and number that
\* ownerRepoNumberFromText extracts from the text of this call of Expand;
\* when the extraction fails (no match, or a number that does not parse)
\* there is no lookup call and Expand returns nil.
C15_LookupOnlyExtracted ==
    xpc # "start" =>
        LET r == ownerRepoNumberFromText(text, intSize)
        IN  /\ \A k \in 1..Len(calls) :
                   ~r.err /\ calls[k] = <<r.owner, r.repo, r.num>>
            /\ r.err => (calls = <<>> /\ xpc = "done" /\ ret = NilRet)
            /\ (~r.err /\ xpc = "done") => Len(calls) = 1

\* C15 witness: "not-a-match" was expanded: nil, and no lookup call.
C15_Witness ==
    /\ xpc = "done"
    /\ text = <<110, 111, 116, 45, 97, 45, 109, 97, 116, 99, 104>>
    /\ calls = <<>>
    /\ ret = NilRet

\* C16: an expansion never fails abnormally: whatever the text and whatever
\* the lookup answers (an error, an issue with url and title, an issue that
\* lacks the url or the title), Expand ends by returning nil or a notice
\* message.
C16_NeverFailsAbnormally ==
    /\ ret.kind \in {"none", "nil", "msg"}
    /\ xpc = "done" => ret.kind \in {"nil", "msg"}
    /\ ret.kind = "msg" => ret.msgtype = "m.notice"

(***************************************************************************)
(* Properties of RoomIDs.                                                  *)
(***************************************************************************)
\* C13: RoomIDs returns exactly the keys of the table: every key once, also
\* the key of a room with an empty list, no other room, and no step of the
\* call changes the table.
C13_RoomIDsAreKeys ==
    /\ [][Rooms' = Rooms]_vars
    /\ [](rpc = "done" =>
             /\ Len(keys) = Cardinality(DOMAIN Rooms)
             /\ \A r \in DOMAIN Rooms : \E k \in 1..Len(keys) : keys[k] = r
             /\ \A k \in 1..Len(keys) : keys[k] \in DOMAIN Rooms)

\* C13 witness: the call returned two keys, one of them of a room with an
\* empty list.
C13_Witness ==
    /\ rpc = "done"
    /\ Len(keys) = 2
    /\ \E r \in DOMAIN Rooms : Rooms[r] = <<>>
    /\ \E r \in DOMAIN Rooms : Rooms[r] # <<>>

=============================================================================
